---- MODULE Spec2Model ----
(***************************************************************************)
(* Model of github_team_management/manage_teams.py: the add-team command    *)
(* (team lookup, then one PUT per repository with a retry loop on the       *)
(* rate-limit signal) and the list-teams command (paginated repository      *)
(* listing, then one team fetch per repository, rows written to a CSV).     *)
(* The GitHub API and the network are the environment: every response is    *)
(* drawn from a small set when the request is issued.                       *)
(***************************************************************************)
EXTENDS Integers, Sequences, FiniteSets, TLC

VARIABLES
    command,      \* args.command
    args,         \* the parsed command line (add-team only)
    csv_file,     \* rows of the input CSV file (--csv-file)
    pc,           \* position of the run
    permission,   \* main's local `permission` after normalisation
    repo_names,   \* main's / add_teams_to_repos' repo_names
    idx,          \* position of the for loop (1-based) in repo_names / repos
    net,          \* every HTTP request issued so far, in order
    last_resp,    \* the answer to the last request of net
    lookup_resp,  \* team_exists' response
    log,          \* records written through logging
    stdout,       \* lines written by print
    clock,        \* time.time(), counted from the start of the run
    exit_status,  \* process exit status once the run has ended
    pages,        \* the organisation's repository listing, as the server pages it
    url,          \* list_all_repos' url: index of the page to request, 0 for None
    repos,        \* list_all_repos' accumulator of repository objects
    csv_out,      \* rows written to {org}_teams_roles.csv
    fetched       \* one entry per team fetch: repository and the teams returned

vars == <<command, args, csv_file, pc, permission, repo_names, idx, net, last_resp,
          lookup_resp, log, stdout, clock, exit_status, pages, url, repos, csv_out, fetched>>

---------------------------------------------------------------------------
(* Bounds of the model *)

MaxRepos == 2      \* longest repository list given to add-team
MaxRetries == 2    \* most rate-limit answers the server gives during one run
MaxPages == 2      \* most pages of the repository listing
MaxPageLen == 2    \* most repositories on one page

---------------------------------------------------------------------------
(* Values *)

Org == "org"
TeamSlug == "team"
RepoUniverse == <<"a", "b", "c", "d", "e", "f", "g", "h", "i">>

\* choices of --permission (line 134)
PermissionChoices == {"read", "write", "admin", "maintain", "triage"}

\* the values of --permission the runs of the model are started with
InputPermissions == {"read", "write", "admin"}

Max(a, b) == IF a >= b THEN a ELSE b

SeqsUpTo(S, n) == UNION {[1..k -> S] : k \in 0..n}

Last(s) == s[Len(s)]

---------------------------------------------------------------------------
(* The environment: answers of the GitHub API *)

\* A request that never got an answer: requests raises ConnectionError, which is a
\* RequestException but not an HTTPError.
ConnectionFailure == [transport |-> "ConnectionError", status |-> 0]

\* Answers to GET /orgs/{org}/teams/{team_slug}
LookupResponses ==
    {[transport |-> "ok", status |-> s] : s \in {200, 403, 404, 500}}
        \cup {ConnectionFailure}

\* Answers to the PUT: a status, a body that parses as JSON or does not, and the
\* rate-limit headers.
PutStatuses == {200, 204, 403, 404}

\* Reset timestamps a response may carry: one not after the start of the run, one after
ResetTimes == {0, 2}

\* The rate-limit headers of an answer (X-RateLimit-Remaining, X-RateLimit-Reset):
\* both, as GitHub sends them, or none
RateLimitHeaders ==
    {[remaining |-> "absent", reset |-> 0]}
        \cup {[remaining |-> r, reset |-> t] : r \in {"0", "1"}, t \in ResetTimes}

PutResponses ==
    {[transport |-> "ok", status |-> s, json |-> j, remaining |-> h.remaining,
      reset |-> h.reset] :
        s \in PutStatuses, j \in BOOLEAN, h \in RateLimitHeaders}
    \cup {ConnectionFailure}

\* Answers to GET /repos/{org}/{repo}/teams
TeamX == [name |-> "X", permission |-> "push"]
TeamY == [name |-> "Y", permission |-> "pull"]
TeamLists == {<<>>, <<TeamX>>, <<TeamX, TeamY>>}

TeamsResponses ==
    {[transport |-> "ok", status |-> 200, teams |-> ts] : ts \in TeamLists}
        \cup {[transport |-> "ok", status |-> 404, teams |-> <<>>]}
        \cup {ConnectionFailure}

\* Answers to GET of one page of /orgs/{org}/repos
PageResponses ==
    {[transport |-> "ok", status |-> s] : s \in {200, 500}} \cup {ConnectionFailure}

\* The listing of an organisation: distinct repository names, cut into pages, each
\* page carrying the link to the next one (0: no "next" relation).
Offset(sizes, k) == LET RECURSIVE Sum(_)
                        Sum(j) == IF j = 0 THEN 0 ELSE sizes[j] + Sum(j - 1)
                    IN Sum(k - 1)

PageChain(sizes) ==
    [k \in 1..Len(sizes) |->
        [items |-> [j \in 1..sizes[k] |-> [name |-> RepoUniverse[Offset(sizes, k) + j]]],
         next |-> IF k < Len(sizes) THEN k + 1 ELSE 0]]

PageChains ==
    {PageChain(sizes) : sizes \in UNION {[1..k -> 0..MaxPageLen] : k \in 1..MaxPages}}

\* The input CSV: rows of cells; a blank line is a row without cells.
CsvRows == {<<"a">>, <<"b", "x">>, <<>>}
CsvFiles == SeqsUpTo(CsvRows, MaxRepos)

---------------------------------------------------------------------------
(* Requests and log records *)

\* `index` is the iteration of the loop that issued the request (0: outside a loop)
Request(kind, repo, perm, index) ==
    [kind |-> kind, org |-> Org, team_slug |-> TeamSlug, repo |-> repo,
     permission |-> perm, index |-> index]

LookupRequest == Request("team_lookup", "", "", 0)
PutRequest(repo, perm, k) == Request("grant", repo, perm, k)
PageRequest(page) == Request("repos_page", "", "", page)
TeamsRequest(repo, k) == Request("repo_teams", repo, "", k)

LogRecord(level, msg, repo, detail) ==
    [level |-> level, msg |-> msg, repo |-> repo, detail |-> detail]

\* rate-limit waits taken so far (one warning is logged per wait)
RateLimitWaits == Cardinality({n \in 1..Len(log) : log[n].msg = "rate_limit"})

\* requests of one kind issued so far for iteration k
Issued(kind, k) == {n \in 1..Len(net) : net[n].kind = kind /\ net[n].index = k}

---------------------------------------------------------------------------
(* The functions of manage_teams.py *)

\* response.raise_for_status(): HTTPError for a 4xx or 5xx status, nothing otherwise
RaisesForStatus(resp) == resp.status >= 400 /\ resp.status < 600

\* a lookup that takes every answer but "not found" for the team
team_exists_unless_404(resp) == resp.status # 404

\* team_exists
team_exists(resp) == resp.status = 200

\* add_team_to_repo: what the call does with the answer to its PUT
add_team_to_repo(resp) ==
    IF resp.transport # "ok" THEN [kind |-> "raise", value |-> "ConnectionError"]
    ELSE IF resp.status = 204 THEN [kind |-> "return", value |-> "Team added successfully"]
    ELSE IF resp.json THEN [kind |-> "return", value |-> "body"]
    ELSE IF RaisesForStatus(resp) THEN [kind |-> "raise", value |-> "HTTPError"]
    ELSE [kind |-> "return", value |-> "None"]

\* handle_rate_limiting: the value returned and the seconds slept before returning
handle_rate_limiting(resp, now) ==
    IF resp.status = 403 /\ resp.remaining # "absent" /\ resp.remaining = "0"
    THEN [value |-> TRUE, sleep_time |-> Max(0, resp.reset - now)]
    ELSE [value |-> FALSE, sleep_time |-> 0]

\* get_repo_names_from_csv: the first cell of every row
get_repo_names_from_csv(rows) == [k \in 1..Len(rows) |-> rows[k][1]]

\* row[0] of a row without cells raises IndexError
CsvReadable(rows) == \A k \in 1..Len(rows) : Len(rows[k]) >= 1

\* main, lines 147-149: the permission sent to the API
NormalizePermission(p) ==
    LET p1 == IF p = "read" THEN "pull" ELSE p
    IN IF p1 = "write" THEN "push" ELSE p1

---------------------------------------------------------------------------
(* Initial states: the command line, the input file, what the server holds *)

NoResponse == [transport |-> "none", status |-> 0]

AddTeamArgs ==
    [permission : InputPermissions, repo_name : {"", "a"}, has_csv : BOOLEAN]

InitCommon ==
    /\ pc = "main"
    /\ permission = ""
    /\ repo_names = <<>>
    /\ idx = 0
    /\ net = <<>>
    /\ last_resp = NoResponse
    /\ lookup_resp = NoResponse
    /\ log = <<>>
    /\ stdout = <<>>
    /\ clock = 0
    /\ exit_status = 0
    /\ url = 0
    /\ repos = <<>>
    /\ csv_out = <<>>
    /\ fetched = <<>>

InitAddTeam ==
    /\ command = "add-team"
    /\ args \in AddTeamArgs
    /\ csv_file \in (IF args.has_csv THEN CsvFiles ELSE {<<>>})
    /\ pages = <<>>
    /\ InitCommon

InitListTeams ==
    /\ command = "list-teams"
    /\ args = [permission |-> "read", repo_name |-> "", has_csv |-> FALSE]
    /\ csv_file = <<>>
    /\ pages \in PageChains
    /\ InitCommon

---------------------------------------------------------------------------
(* add-team *)

\* an exception nothing catches: traceback, exit status 1
Crash ==
    /\ pc' = "crashed"
    /\ exit_status' = 1

\* main, lines 146-157
MainAddTeam ==
    /\ pc = "main"
    /\ command = "add-team"
    /\ permission' = NormalizePermission(args.permission)
    /\ IF args.has_csv
       THEN IF CsvReadable(csv_file)
            THEN /\ repo_names' = get_repo_names_from_csv(csv_file)
                 /\ pc' = "team_exists"
                 /\ UNCHANGED <<log, exit_status>>
            ELSE /\ Crash
                 /\ UNCHANGED <<repo_names, log>>
       ELSE IF args.repo_name # ""
            THEN /\ repo_names' = <<args.repo_name>>
                 /\ pc' = "team_exists"
                 /\ UNCHANGED <<log, exit_status>>
            ELSE /\ log' = Append(log, LogRecord("ERROR", "missing_repo_source", "", ""))
                 /\ exit_status' = 1
                 /\ pc' = "exited"
                 /\ UNCHANGED repo_names
    /\ UNCHANGED <<command, args, csv_file, idx, net, last_resp, lookup_resp, stdout,
                   clock, pages, url, repos, csv_out, fetched>>

\* main, lines 159-162, with team_exists
TeamLookup ==
    /\ pc = "team_exists"
    /\ \E resp \in LookupResponses :
        /\ net' = Append(net, LookupRequest)
        /\ last_resp' = resp
        /\ lookup_resp' = resp
        /\ IF resp.transport # "ok"
           THEN /\ Crash
                /\ UNCHANGED <<idx, stdout>>
           ELSE IF team_exists(resp)
           THEN /\ idx' = 1
                /\ pc' = IF Len(repo_names) = 0 THEN "done" ELSE "add_teams_to_repos"
                /\ UNCHANGED <<stdout, exit_status>>
           ELSE /\ stdout' = Append(stdout, "team_does_not_exist")
                /\ pc' = "done"
                /\ UNCHANGED <<idx, exit_status>>
    /\ UNCHANGED <<command, args, csv_file, permission, repo_names, log, clock,
                   pages, url, repos, csv_out, fetched>>

\* the for loop of add_teams_to_repos moves to the next repository
NextRepo ==
    /\ idx' = idx + 1
    /\ pc' = IF idx + 1 > Len(repo_names) THEN "done" ELSE "add_teams_to_repos"

\* add_teams_to_repos, lines 111-121: one pass of the while loop, that is one PUT
\* and what the loop does with its answer
AddTeamsToRepos ==
    /\ pc = "add_teams_to_repos"
    /\ \E resp \in PutResponses :
        LET repo_name == repo_names[idx]
            r == add_team_to_repo(resp)
            h == handle_rate_limiting(resp, clock)
        IN
        /\ net' = Append(net, PutRequest(repo_name, permission, idx))
        /\ last_resp' = resp
        /\ IF r.kind = "return"
           THEN /\ log' = Append(log, LogRecord("INFO", "added", repo_name, permission))
                /\ NextRepo
                /\ UNCHANGED <<clock, exit_status>>
           ELSE IF r.value # "HTTPError"
           THEN /\ Crash
                /\ UNCHANGED <<idx, log, clock>>
           ELSE IF h.value
           THEN /\ RateLimitWaits < MaxRetries
                /\ log' = Append(log, LogRecord("WARNING", "rate_limit", "", ""))
                /\ clock' = clock + h.sleep_time
                /\ UNCHANGED <<idx, pc, exit_status>>
           ELSE /\ log' = Append(log, LogRecord("ERROR", "failed_add", repo_name, ""))
                /\ NextRepo
                /\ UNCHANGED <<clock, exit_status>>
    /\ UNCHANGED <<command, args, csv_file, permission, repo_names, lookup_resp, stdout,
                   pages, url, repos, csv_out, fetched>>

NextAddTeam == MainAddTeam \/ TeamLookup \/ AddTeamsToRepos

SpecAddTeam == InitAddTeam /\ [][NextAddTeam]_vars

---------------------------------------------------------------------------
(* list-teams *)

CsvHeader == <<"Repository", "Team", "Role">>

\* list_all_repos, line 83: the names of the accumulated repository objects
RepoNamesOf(objs) == [k \in 1..Len(objs) |-> objs[k].name]

\* a report that writes the first team of a repository only
RowsForFirstTeam(repo_name, teams) ==
    [k \in 1..(IF Len(teams) > 0 THEN 1 ELSE 0) |->
        <<repo_name, teams[k].name, teams[k].permission>>]

\* write_teams_to_csv, lines 98-100: the rows written for one repository
RowsFor(repo_name, teams) ==
    [k \in 1..Len(teams) |-> <<repo_name, teams[k].name, teams[k].permission>>]

\* write_teams_to_csv, lines 96-102: the records logged for one repository
TeamLogFor(repo_name, teams) ==
    IF Len(teams) > 0
    THEN <<LogRecord("INFO", "teams_of", repo_name, "")>>
            \o [k \in 1..Len(teams) |->
                    LogRecord("INFO", "team", teams[k].name, teams[k].permission)]
    ELSE <<LogRecord("INFO", "no_teams", repo_name, "")>>

\* list_teams_for_repo: what the call does with the answer to its GET
list_teams_for_repo(resp) ==
    IF resp.transport # "ok" THEN [kind |-> "raise", value |-> "ConnectionError", teams |-> <<>>]
    ELSE IF RaisesForStatus(resp) THEN [kind |-> "raise", value |-> "HTTPError", teams |-> <<>>]
    ELSE [kind |-> "return", value |-> "json", teams |-> resp.teams]

\* a listing that stops after its first page
NextUrlNone(page) == 0

\* list_all_repos, line 82: the url of the "next" relation, None (0) without one
NextUrl(page) == page.next

\* main, lines 143-145, and the entry of write_teams_to_csv into list_all_repos
MainListTeams ==
    /\ pc = "main"
    /\ command = "list-teams"
    /\ url' = 1
    /\ repos' = <<>>
    /\ pc' = "list_all_repos"
    /\ UNCHANGED <<command, args, csv_file, permission, repo_names, idx, net, last_resp,
                   lookup_resp, log, stdout, clock, exit_status, pages, csv_out, fetched>>

\* list_all_repos, lines 78-83: one pass of the while loop, that is the GET of one
\* page; after the last page the names are returned and write_teams_to_csv opens
\* the file and writes the header (lines 90-92)
ListAllRepos ==
    /\ pc = "list_all_repos"
    /\ url # 0
    /\ \E resp \in PageResponses :
        /\ net' = Append(net, PageRequest(url))
        /\ last_resp' = resp
        /\ IF resp.transport # "ok" \/ RaisesForStatus(resp)
           THEN /\ Crash
                /\ UNCHANGED <<url, repos, repo_names, idx, csv_out, log>>
           ELSE /\ repos' = repos \o pages[url].items
                /\ url' = NextUrl(pages[url])
                /\ IF url' = 0
                   THEN /\ repo_names' = RepoNamesOf(repos')
                        /\ csv_out' = <<CsvHeader>>
                        /\ idx' = 1
                        /\ IF Len(repos') = 0
                           THEN /\ log' = Append(log, LogRecord("INFO", "csv_generated", "", ""))
                                /\ pc' = "done"
                           ELSE /\ pc' = "write_teams_to_csv"
                                /\ UNCHANGED log
                   ELSE UNCHANGED <<repo_names, csv_out, idx, pc, log>>
                /\ UNCHANGED exit_status
    /\ UNCHANGED <<command, args, csv_file, permission, lookup_resp, stdout, clock,
                   pages, fetched>>

\* write_teams_to_csv, lines 93-105: one pass of the for loop, that is the team
\* fetch of one repository and the rows written for it
WriteTeamsToCsv ==
    /\ pc = "write_teams_to_csv"
    /\ \E resp \in TeamsResponses :
        LET repo_name == repo_names[idx]
            r == list_teams_for_repo(resp)
            logged == IF r.kind = "return"
                      THEN TeamLogFor(repo_name, r.teams)
                      ELSE <<LogRecord("ERROR", "failed_list", repo_name, "")>>
            last == idx + 1 > Len(repo_names)
        IN
        /\ net' = Append(net, TeamsRequest(repo_name, idx))
        /\ last_resp' = resp
        /\ fetched' = Append(fetched, [repo |-> repo_name, resp |-> resp])
        /\ IF r.kind = "raise" /\ r.value # "HTTPError"
           THEN /\ Crash
                /\ UNCHANGED <<idx, log, csv_out>>
           ELSE /\ csv_out' = IF r.kind = "return"
                              THEN csv_out \o RowsFor(repo_name, r.teams)
                              ELSE csv_out
                /\ log' = IF last
                          THEN Append(log \o logged, LogRecord("INFO", "csv_generated", "", ""))
                          ELSE log \o logged
                /\ idx' = idx + 1
                /\ pc' = IF last THEN "done" ELSE "write_teams_to_csv"
                /\ UNCHANGED exit_status
    /\ UNCHANGED <<command, args, csv_file, permission, repo_names, lookup_resp,
                   stdout, clock, pages, url, repos>>

NextListTeams == MainListTeams \/ ListAllRepos \/ WriteTeamsToCsv

SpecListTeams == InitListTeams /\ [][NextListTeams]_vars

---------------------------------------------------------------------------
(* The program: main dispatches on the command *)

Init == InitAddTeam \/ InitListTeams

Next == NextAddTeam \/ NextListTeams

Spec == Init /\ [][Next]_vars

---------------------------------------------------------------------------
(* Vocabulary of the properties *)

\* positions in net of the requests of one kind
RequestsOf(kind) == {n \in 1..Len(net) : net[n].kind = kind}

AddTeamRun == command = "add-team"
ListTeamsRun == command = "list-teams"

\* the run is over: normally, by exit(1), or by an exception nothing caught
Ended == pc \in {"done", "exited", "crashed"}

\* an answer carrying an HTTP error status
HttpError(resp) == resp.transport = "ok" /\ resp.status >= 400

\* list_all_repos has returned: the output file is open and holds its header
ListingReturned == ListTeamsRun /\ Len(csv_out) > 0

---------------------------------------------------------------------------
(* C4: add-team looks the team up once, before any PUT; PUTs follow a 200 only *)

\* C4: for add-team the team lookup is issued at most once, and exactly once when
\* a repository source was given, and it precedes every grant PUT; a PUT is issued
\* only after the lookup was answered with status 200; after any other status no
\* PUT is issued, the run ends and the "does not exist" message is printed instead.
C4_LookupGuardsGrants ==
    AddTeamRun =>
        /\ Cardinality(RequestsOf("team_lookup")) <= 1
        /\ pc \in {"add_teams_to_repos", "done"} =>
                Cardinality(RequestsOf("team_lookup")) = 1
        /\ \A n \in RequestsOf("grant") :
                /\ n > 1
                /\ net[1].kind = "team_lookup"
                /\ lookup_resp.transport = "ok"
                /\ lookup_resp.status = 200
        /\ (pc = "add_teams_to_repos" \/ RequestsOf("grant") # {}) => stdout = <<>>
        /\ (lookup_resp.transport = "ok" /\ lookup_resp.status # 200) =>
                /\ RequestsOf("grant") = {}
                /\ pc = "done"
                /\ stdout = <<"team_does_not_exist">>

\* a lookup answered 403 for a run that had repositories to grant
C4_Witness ==
    /\ AddTeamRun
    /\ Len(repo_names) >= 2
    /\ lookup_resp.transport = "ok"
    /\ lookup_resp.status = 403
    /\ pc = "done"

---------------------------------------------------------------------------
(* C7: list_all_repos *)

RECURSIVE NamesUpTo(_)
\* the names on pages 1..k of the listing, in page order
NamesUpTo(k) ==
    IF k = 0 THEN <<>>
    ELSE NamesUpTo(k - 1) \o [j \in 1..Len(pages[k].items) |-> pages[k].items[j].name]

\* C7: list_all_repos requests the pages in the order of their "next" links, none
\* twice; once it has returned, every page has been requested exactly once, no page
\* is requested any more, and the names returned are those of all pages concatenated
\* in page order.
C7_ListAllRepos ==
    ListTeamsRun =>
        /\ \A n \in RequestsOf("repos_page") : net[n].index = n
        /\ Cardinality(RequestsOf("repos_page")) <= Len(pages)
        /\ ListingReturned =>
                /\ Cardinality(RequestsOf("repos_page")) = Len(pages)
                /\ url = 0
                /\ repo_names = NamesUpTo(Len(pages))

\* the listing [[a, b], [c]] has been returned as [a, b, c]
C7_Witness ==
    /\ ListingReturned
    /\ Len(pages) = 2
    /\ Len(pages[1].items) = 2
    /\ Len(pages[2].items) = 1
    /\ repo_names = <<"a", "b", "c">>

---------------------------------------------------------------------------
(* C5: the rows of the report *)

RECURSIVE AssociationsUpTo(_)
\* one row per (repository, team) of the first k team fetches, in the order fetched
AssociationsUpTo(k) ==
    IF k = 0 THEN <<>>
    ELSE LET f == fetched[k]
         IN AssociationsUpTo(k - 1)
                \o [j \in 1..Len(f.resp.teams) |->
                        <<f.repo, f.resp.teams[j].name, f.resp.teams[j].permission>>]

AllFetchesSucceeded ==
    \A k \in 1..Len(fetched) :
        fetched[k].resp.transport = "ok" /\ fetched[k].resp.status = 200

\* C5: while every team fetch has succeeded, the CSV holds the header and then
\* exactly one row (repo, team name, permission) per association, by repository in
\* listing order and within a repository in the order the teams were returned; the
\* repositories fetched are the first ones of the listing, and all of them once the
\* run is done, whether or not some have no team.
C5_ReportRows ==
    (ListingReturned /\ AllFetchesSucceeded) =>
        /\ csv_out = <<CsvHeader>> \o AssociationsUpTo(Len(fetched))
        /\ Len(fetched) <= Len(repo_names)
        /\ \A k \in 1..Len(fetched) : fetched[k].repo = repo_names[k]
        /\ pc # "crashed"
        /\ pc = "done" => Len(fetched) = Len(repo_names)

\* a finished report whose first repository has no team and whose second has two
C5_Witness ==
    /\ ListingReturned
    /\ AllFetchesSucceeded
    /\ pc = "done"
    /\ Len(fetched) >= 2
    /\ fetched[1].resp.teams = <<>>
    /\ Len(fetched[2].resp.teams) = 2
    /\ Len(csv_out) = 3

---------------------------------------------------------------------------
(* Bulk grant: C1, C2, C3, C9, C10 *)

\* the last request is a PUT of the grant loop
LastIsGrant == AddTeamRun /\ Len(net) > 0 /\ Last(net).kind = "grant"

\* the rate-limit signal: status 403 with a remaining quota of 0
RateLimitSignal(resp) ==
    resp.transport = "ok" /\ resp.status = 403 /\ resp.remaining = "0"

\* C1: whenever a PUT is answered with 403 and remaining quota 0, the flow has waited
\* until the reset time and is about to re-issue the PUT for the same repository: it
\* has not moved to another repository, has not ended, and has logged the wait and
\* no outcome for the repository.
C1_RateLimitRetried ==
    (LastIsGrant /\ RateLimitSignal(last_resp)) =>
        /\ pc = "add_teams_to_repos"
        /\ idx = Last(net).index
        /\ Len(log) > 0
        /\ Last(log).msg = "rate_limit"
        /\ clock >= last_resp.reset

\* C2: the PUTs are issued in list order, and once a run whose team exists is over,
\* every repository of the list has received at least one PUT.
C2_BatchNotAborted ==
    AddTeamRun =>
        /\ \A m, n \in RequestsOf("grant") : m < n => net[m].index <= net[n].index
        /\ (Ended /\ lookup_resp.transport = "ok" /\ lookup_resp.status = 200) =>
                \A k \in 1..Len(repo_names) : Issued("grant", k) # {}

\* C3: when a PUT is answered with an error status that is not the rate-limit
\* signal, the flow has moved on to the next repository without another PUT for
\* this one, and the last record logged is the failure for this repository.
C3_ErrorLoggedNotRetried ==
    (LastIsGrant /\ HttpError(last_resp) /\ ~RateLimitSignal(last_resp)) =>
        /\ pc \in {"add_teams_to_repos", "done"}
        /\ idx = Last(net).index + 1
        /\ Len(log) > 0
        /\ Last(log) = LogRecord("ERROR", "failed_add", Last(net).repo, "")

\* C9: when the success message has just been logged for a repository, the PUT for
\* that repository was answered with status 204.
C9_AddedOnly204 ==
    (/\ LastIsGrant
     /\ idx = Last(net).index + 1
     /\ Len(log) > 0
     /\ Last(log).msg = "added"
     /\ Last(log).repo = Last(net).repo) =>
        last_resp.status = 204

IsOutcome(rec) == rec.msg \in {"added", "failed_add"}

\* the final outcomes logged by the grant loop, in the order logged
Outcomes == SelectSeq(log, IsOutcome)

\* C10: once a run whose team exists is over, every repository of the list has
\* exactly one outcome logged (added or failed), the outcomes are in list order, and
\* the PUTs issued are one per repository plus one per rate-limit wait.
C10_OneOutcomePerRepo ==
    (AddTeamRun /\ Ended /\ lookup_resp.transport = "ok" /\ lookup_resp.status = 200) =>
        /\ Len(Outcomes) = Len(repo_names)
        /\ \A k \in 1..Len(Outcomes) : Outcomes[k].repo = repo_names[k]
        /\ Cardinality(RequestsOf("grant")) = Len(repo_names) + RateLimitWaits

---------------------------------------------------------------------------
(* Report: C6 *)

FetchFailed(resp) == resp.transport # "ok" \/ resp.status >= 400

RECURSIVE RowsOfSuccessesUpTo(_)
\* the rows of the successful ones among the first k team fetches
RowsOfSuccessesUpTo(k) ==
    IF k = 0 THEN <<>>
    ELSE LET f == fetched[k]
         IN RowsOfSuccessesUpTo(k - 1)
                \o (IF FetchFailed(f.resp) THEN <<>>
                    ELSE [j \in 1..Len(f.resp.teams) |->
                            <<f.repo, f.resp.teams[j].name, f.resp.teams[j].permission>>])

\* C6: a failed team fetch is logged for its repository, writes no row and leaves
\* the run going: the report moves to the next repository, the CSV holds the rows of
\* every successful fetch, and once the run is over every repository of the listing
\* has been fetched.
C6_FetchFailureIsolated ==
    ListingReturned =>
        /\ (Len(fetched) > 0 /\ FetchFailed(Last(fetched).resp)) =>
                /\ pc # "crashed"
                /\ idx = Len(fetched) + 1
                /\ \E n \in 1..Len(log) :
                        log[n] = LogRecord("ERROR", "failed_list", Last(fetched).repo, "")
        /\ csv_out = <<CsvHeader>> \o RowsOfSuccessesUpTo(Len(fetched))
        /\ Ended => Len(fetched) = Len(repo_names)

---------------------------------------------------------------------------
(* How a run ends: C8 *)

MissingRepoSource == AddTeamRun /\ ~args.has_csv /\ args.repo_name = ""

\* C8: add-team without --repo-name and --csv-file logs an error and exits with
\* status 1 before any request, and nothing else exits that way; an HTTP error
\* answer to a request (team lookup, grant PUT, page of the listing, team fetch)
\* never ends the run abnormally.
C8_OnlyMissingSourceIsFatal ==
    /\ (MissingRepoSource /\ pc # "main") =>
            /\ pc = "exited"
            /\ exit_status = 1
            /\ net = <<>>
            /\ log = <<LogRecord("ERROR", "missing_repo_source", "", "")>>
    /\ pc = "exited" => MissingRepoSource
    /\ (Len(net) > 0 /\ HttpError(last_resp)) => (pc # "crashed" /\ exit_status = 0)

====
